---- MODULE Spec2Model ----
(***************************************************************************)
(* Model of mpags-cipher (MPAGS C++ day 6): Cipher::splitString            *)
(* (MPAGSCipher/Cipher.hpp) and the multithreaded pipeline of main().      *)
(*                                                                         *)
(* Text is a sequence of letters, a letter is its offset from 'A' (0..25). *)
(***************************************************************************)
EXTENDS Integers, Sequences, FiniteSets, TLC

(***************************************************************************)
(* Bounds of the model                                                     *)
(***************************************************************************)
\* longest text given to splitString on its own
MaxSplitLen == 10
\* largest number of parts asked of splitString on its own
MaxN == 5
\* longest input text of the pipeline
MaxLen == 5
\* longest input text of the pipeline under fair scheduling
MaxFairLen == 4

\* std::vector growth is cut (std::bad_alloc) once it holds more strings than
\* any terminating call can produce (a terminating call pushes at most
\* str_length strings)
MemCap == (IF MaxSplitLen > MaxLen THEN MaxSplitLen ELSE MaxLen) + 1

\* the letters texts are drawn from: 'A' and 'Z'
Letters == {0, 25}

Min(a, b) == IF a < b THEN a ELSE b

RECURSIVE SeqsUpTo(_)
\* all texts over Letters of length at most k
SeqsUpTo(k) ==
    IF k = 0 THEN {<< >>}
    ELSE LET shorter == SeqsUpTo(k - 1)
         IN  shorter \cup {Append(s, c) : s \in {t \in shorter : Len(t) = k - 1}, c \in Letters}

RECURSIVE Concat(_)
\* concatenation of a sequence of texts, in index order
Concat(ss) == IF ss = << >> THEN << >> ELSE Head(ss) \o Concat(Tail(ss))

(***************************************************************************)
(* std::string::substr(pos, count): count characters from pos, cut at the  *)
(* end of the string (pos <= size in every call splitString makes)         *)
(***************************************************************************)
substr(s, pos, count) == SubSeq(s, pos + 1, Min(pos + count, Len(s)))

(***************************************************************************)
(* Cipher::splitString, locals                                             *)
(***************************************************************************)
str_length(s) == Len(s)

\* int division and remainder. Division by zero is undefined: where the
\* hardware does not trap (see SplitDivFault for the trap) the quotient is 0 and
\* the remainder, a - (a / b) * b, is the dividend
IntDiv(a, b) == IF b = 0 THEN 0 ELSE a \div b
IntRem(a, b) == IF b = 0 THEN a ELSE a % b

part_size(s, k) == IntDiv(str_length(s), k)

\* the string one iteration of the for loop pushes back, at loop index i
LoopChunk(s, k, i) ==
    IF IntRem(str_length(s), k) # 0
    THEN IF i + part_size(s, k) >= str_length(s)
         THEN substr(s, i, str_length(s) - 1)
         ELSE substr(s, i, i + part_size(s, k))
    ELSE substr(s, i, i + part_size(s, k))

(***************************************************************************)
(* Cipher::splitString as main() calls it: the loop run to its end.        *)
(* returned = FALSE when the loop never ends (the vector grows until       *)
(* push_back throws)                                                       *)
(***************************************************************************)
RECURSIVE SplitFrom(_, _, _, _)
SplitFrom(s, k, i, subs) ==
    IF ~(i < str_length(s)) THEN [returned |-> TRUE, substrings |-> subs]
    ELSE IF Len(subs) >= MemCap THEN [returned |-> FALSE, substrings |-> subs]
    ELSE SplitFrom(s, k, i + part_size(s, k), Append(subs, LoopChunk(s, k, i)))

splitString(s, k) == SplitFrom(s, k, 0, << >>)

(***************************************************************************)
(* main(): constants and inputs                                            *)
(***************************************************************************)
\* int nThreads{4}
nThreads == 4

Workers == 0..(nThreads - 1)

\* the text the input loop has read and transformChar has normalised
BaseText == <<23, 24, 25, 0, 1, 2, 3, 4, 5, 6, 7, 8>>
InputTexts == {SubSeq(BaseText, 1, l) : l \in 0..MaxLen}

\* settings.cipherKey, a string of characters
RawKeys == { <<"3">>, <<"a", "b", "c">> }

CipherModes == {"Encrypt", "Decrypt"}

\* settings.cipherType: the Caesar kind, and a value the factory has no cipher for
CipherTypes == {"Caesar", "Unknown"}

\* what a read of memory that holds no chunk yields
Garbage == <<-1>>
\* the future holds an exception (std::length_error, std::bad_alloc) that the
\* copy of a string object holding no chunk threw
Threw == <<-3>>

(***************************************************************************)
(* cipherFactory and the Caesar cipher (CipherFactory.hpp, CaesarCipher:   *)
(* not among the sources; modelled from the specification, sections 4.2    *)
(* and 4.5)                                                                *)
(***************************************************************************)
AlphabetSize == 26

Digits == {"0", "1", "2", "3", "4", "5", "6", "7", "8", "9"}
DigitValue(c) ==
    CASE c = "0" -> 0 [] c = "1" -> 1 [] c = "2" -> 2 [] c = "3" -> 3 [] c = "4" -> 4
      [] c = "5" -> 5 [] c = "6" -> 6 [] c = "7" -> 7 [] c = "8" -> 8 [] c = "9" -> 9

RECURSIVE DigitsValue(_)
DigitsValue(ds) ==
    IF ds = << >> THEN 0
    ELSE 10 * DigitsValue(SubSeq(ds, 1, Len(ds) - 1)) + DigitValue(ds[Len(ds)])

IsInteger(key) ==
    LET ds == IF key # << >> /\ Head(key) = "-" THEN Tail(key) ELSE key
    IN  ds # << >> /\ \A j \in 1..Len(ds) : ds[j] \in Digits

ParseInteger(key) ==
    IF Head(key) = "-" THEN 0 - DigitsValue(Tail(key)) ELSE DigitsValue(key)

\* the kinds of cipher the factory dispatches on that have a cipher here
SupportedTypes == {"Caesar"}

\* the outcome of cipherFactory(type, key): for the Caesar kind InvalidKey
\* thrown, or a cipher holding the shift reduced modulo the alphabet size; for
\* a kind the dispatch does not know, the empty pointer main tests for
cipherFactory(type, key) ==
    IF type \notin SupportedTypes
    THEN [invalidKey |-> FALSE, null |-> TRUE, shift |-> 0]
    ELSE IF IsInteger(key)
    THEN [invalidKey |-> FALSE, null |-> FALSE, shift |-> ParseInteger(key) % AlphabetSize]
    ELSE [invalidKey |-> TRUE, null |-> TRUE, shift |-> 0]

\* CaesarCipher::applyCipher
applyCipher(c, text, mode) ==
    [j \in 1..Len(text) |->
        IF mode = "Encrypt" THEN (text[j] + c.shift) % AlphabetSize
        ELSE (text[j] - c.shift) % AlphabetSize]

VARIABLES
    str,          \* splitString: parameter str
    n,            \* splitString: parameter n
    split_i,      \* splitString: loop variable i
    substrings,   \* splitString: local vector substrings
    split_pc,     \* splitString: "loop", "returned", "nomem"
    inputText,    \* main: inputText
    cipherKey,    \* main: settings.cipherKey
    cipherType,   \* main: settings.cipherType
    cipherMode,   \* main: settings.cipherMode
    cipher,       \* main: the cipher the factory built (NoCipher before)
    pc,           \* main: position of the main thread
    launch_i,     \* main: i of the launching loop
    substrs,      \* main: substrs
    futures,      \* main: futures, by index: state of the worker ("none", "start",
                  \* "idx": holds a reference to substrs[idx], "dangling": the
                  \* buffer referred to was freed, "ready") and its result
    wait_i,       \* main: i of the polling loop
    status,       \* main: status
    comb_i,       \* main: i of the recombination loop
    outputText,   \* main: outputText
    written,      \* what went to the output file or to stdout as the result
    processing,   \* whether "processing" was printed on stdout
    stderr,       \* the error message printed, "" when none
    exitCode      \* value main returned, -1 while it has not returned

splitVars == <<str, n, split_i, substrings, split_pc>>

mainVars == <<inputText, cipherKey, cipherType, cipherMode, cipher, pc, launch_i, substrs, futures,
              wait_i, status, comb_i, outputText, written, processing, stderr, exitCode>>

vars == <<str, n, split_i, substrings, split_pc,
          inputText, cipherKey, cipherType, cipherMode, cipher, pc, launch_i, substrs, futures,
          wait_i, status, comb_i, outputText, written, processing, stderr, exitCode>>

\* std::unique_ptr<Cipher> cipher: the empty pointer
NoCipher == [invalidKey |-> FALSE, null |-> TRUE, shift |-> 0]
NotWritten == <<-2>>
NoFuture == [st |-> "none", idx |-> 0, res |-> << >>]
\* no worker thread exists: none is launched yet, or the process was killed and
\* its threads with it
NoThreads == [w \in Workers |-> NoFuture]

\* main() before the cipher is requested, for a given input
MainStart(text, key, mode) ==
    /\ inputText = text
    /\ cipherKey = key
    /\ cipherMode = mode
    /\ cipher = NoCipher
    /\ pc = "construct"
    /\ launch_i = 0
    /\ substrs = << >>
    /\ futures = NoThreads
    /\ wait_i = 0
    /\ status = "ready"
    /\ comb_i = 0
    /\ outputText = << >>
    /\ written = NotWritten
    /\ processing = FALSE
    /\ stderr = ""
    /\ exitCode = -1

\* splitString not called
SplitIdle ==
    /\ str = << >>
    /\ n = 1
    /\ split_i = 0
    /\ substrings = << >>
    /\ split_pc = "idle"

(***************************************************************************)
(* splitString run on its own, one action per loop step                    *)
(***************************************************************************)
SplitInit ==
    /\ str \in SeqsUpTo(MaxSplitLen)
    /\ n \in 1..MaxN
    /\ split_i = 0
    /\ substrings = << >>
    /\ split_pc = "loop"
    /\ MainStart(<< >>, <<"0">>, "Encrypt")
    /\ cipherType = "Caesar"

\* one iteration of the for loop: push_back, then i = i + part_size
SplitLoopBody ==
    /\ split_pc = "loop"
    /\ split_i < str_length(str)
    /\ Len(substrings) < MemCap
    /\ substrings' = Append(substrings, LoopChunk(str, n, split_i))
    /\ split_i' = split_i + part_size(str, n)
    /\ UNCHANGED <<str, n, split_pc>>
    /\ UNCHANGED mainVars

\* the loop condition fails: return substrings
SplitReturn ==
    /\ split_pc = "loop"
    /\ ~(split_i < str_length(str))
    /\ split_pc' = "returned"
    /\ UNCHANGED <<str, n, split_i, substrings>>
    /\ UNCHANGED mainVars

\* the vector cannot grow any more: push_back throws, nothing is returned
SplitNoMem ==
    /\ split_pc = "loop"
    /\ split_i < str_length(str)
    /\ Len(substrings) >= MemCap
    /\ split_pc' = "nomem"
    /\ UNCHANGED <<str, n, split_i, substrings>>
    /\ UNCHANGED mainVars

SplitNext == SplitLoopBody \/ SplitReturn \/ SplitNoMem

SplitSpec == SplitInit /\ [][SplitNext]_vars

(***************************************************************************)
(* splitString called with n = 0                                           *)
(***************************************************************************)
SplitZeroInit ==
    /\ str \in SeqsUpTo(MaxSplitLen)
    /\ n = 0
    /\ split_i = 0
    /\ substrings = << >>
    /\ split_pc = "loop"
    /\ MainStart(<< >>, <<"0">>, "Encrypt")
    /\ cipherType = "Caesar"

\* int part_size = str_length / n with n = 0: the division traps (SIGFPE) and
\* the process is killed
SplitDivFault ==
    /\ split_pc = "loop"
    /\ n = 0
    /\ split_i = 0
    /\ substrings = << >>
    /\ split_pc' = "fpe"
    /\ UNCHANGED <<str, n, split_i, substrings>>
    /\ UNCHANGED mainVars

SplitZeroNext == SplitDivFault \/ SplitLoopBody \/ SplitReturn \/ SplitNoMem

SplitZeroSpec == SplitZeroInit /\ [][SplitZeroNext]_vars

(***************************************************************************)
(* main(), from the request for the cipher on                              *)
(***************************************************************************)
Init ==
    /\ SplitIdle
    /\ cipherType \in CipherTypes
    /\ \E text \in InputTexts, key \in RawKeys, mode \in CipherModes :
           MainStart(text, key, mode)

\* a handler that prints the error and goes on instead of returning
InvalidKeyHandler_Continue ==
    [pc |-> "launch_test", exitCode |-> -1, stderr |-> "[error] Invalid key"]

\* catch (const InvalidKey& error): print the error, return 1
InvalidKeyHandler == [pc |-> "exit", exitCode |-> 1, stderr |-> "[error] Invalid key"]

\* if (!cipher): print the error, return 1
NullCipherHandler ==
    [pc |-> "exit", exitCode |-> 1,
     stderr |-> "[error] problem constructing requested cipher"]

\* cipher = cipherFactory(...) inside try/catch, then the test if (!cipher)
ConstructCipher ==
    /\ pc = "construct"
    /\ LET made == cipherFactory(cipherType, cipherKey)
       IN  IF made.invalidKey
           THEN /\ stderr' = InvalidKeyHandler.stderr
                /\ exitCode' = InvalidKeyHandler.exitCode
                /\ pc' = InvalidKeyHandler.pc
                /\ UNCHANGED cipher
           ELSE IF made.null
           THEN /\ stderr' = NullCipherHandler.stderr
                /\ exitCode' = NullCipherHandler.exitCode
                /\ pc' = NullCipherHandler.pc
                /\ cipher' = made
           ELSE /\ cipher' = made
                /\ pc' = "launch_test"
                /\ UNCHANGED <<stderr, exitCode>>
    /\ launch_i' = 0
    /\ UNCHANGED <<inputText, cipherKey, cipherType, cipherMode, substrs, futures, wait_i,
                   status, comb_i, outputText, written, processing>>
    /\ UNCHANGED splitVars

\* for (int i{0}; i < nThreads; ...): the loop test
LaunchTest ==
    /\ pc = "launch_test"
    /\ IF launch_i < nThreads
       THEN pc' = "split"
       ELSE pc' = "wait_poll"
    /\ wait_i' = 0
    /\ UNCHANGED <<inputText, cipherKey, cipherType, cipherMode, cipher, launch_i, substrs, futures,
                   status, comb_i, outputText, written, processing, stderr, exitCode>>
    /\ UNCHANGED splitVars

\* the futures once substrs is assigned a new vector: the old buffer and its
\* strings are freed, the references workers hold into it dangle
FuturesAfterAssign ==
    [w \in Workers |->
        IF futures[w].st = "idx"
        THEN [st |-> "dangling", idx |-> futures[w].idx, res |-> futures[w].res]
        ELSE futures[w]]

\* substrs = cipher->splitString(inputText, nThreads)
SplitInput ==
    /\ pc = "split"
    /\ LET r == splitString(inputText, nThreads)
       IN  IF r.returned
           THEN /\ substrs' = r.substrings
                /\ futures' = FuturesAfterAssign
                /\ pc' = "async"
           ELSE /\ pc' = "aborted"
                /\ UNCHANGED <<substrs, futures>>
    /\ UNCHANGED <<inputText, cipherKey, cipherType, cipherMode, cipher, launch_i, wait_i,
                   status, comb_i, outputText, written, processing, stderr, exitCode>>
    /\ UNCHANGED splitVars

\* std::async(std::launch::async, applyCipher_lamba); futures.push_back(...)
LaunchWorker ==
    /\ pc = "async"
    /\ futures' = [futures EXCEPT ![launch_i] = [st |-> "start", idx |-> 0, res |-> << >>]]
    /\ pc' = "incr"
    /\ UNCHANGED <<inputText, cipherKey, cipherType, cipherMode, cipher, launch_i, substrs, wait_i,
                   status, comb_i, outputText, written, processing, stderr, exitCode>>
    /\ UNCHANGED splitVars

\* ++i of the launching loop
LaunchIncr ==
    /\ pc = "incr"
    /\ launch_i' = launch_i + 1
    /\ pc' = "launch_test"
    /\ UNCHANGED <<inputText, cipherKey, cipherType, cipherMode, cipher, substrs, futures, wait_i,
                   status, comb_i, outputText, written, processing, stderr, exitCode>>
    /\ UNCHANGED splitVars

(***************************************************************************)
(* The workers: the lambda [&] { return cipher->applyCipher(substrs[i],     *)
(* settings.cipherMode); } holds references to main's i and substrs.       *)
(***************************************************************************)
\* main is inside the launching loop: its i exists
LaunchPcs == {"launch_test", "split", "async", "incr"}

\* the process runs: neither returned from main nor killed
Running == pc \notin {"exit", "crashed", "aborted"}

\* what the reference to i yields once the launching loop is left: the value i
\* had at the exit of the loop. The slot of i in main's frame is written by
\* nothing else while main runs (g++ 12, -O0 to -O3: workers started during the
\* polling loop, the recombination or the output all read nThreads)
DanglingIndexes == {nThreads}

\* the values a worker that evaluates substrs[i] now can read for i
IndexesToRead == IF pc \in LaunchPcs THEN {launch_i} ELSE DanglingIndexes

\* the worker evaluates substrs[i]: it reads i and takes the reference to that
\* element of the buffer substrs has at this moment
WorkerReadIndex(w) ==
    /\ Running
    /\ futures[w].st = "start"
    /\ \E k \in IndexesToRead :
           futures' = [futures EXCEPT ![w] = [st |-> "idx", idx |-> k, res |-> << >>]]
    /\ UNCHANGED <<inputText, cipherKey, cipherType, cipherMode, cipher, pc, launch_i, substrs, wait_i,
                   status, comb_i, outputText, written, processing, stderr, exitCode>>
    /\ UNCHANGED splitVars

\* substrs is being reassigned by main, or is already destroyed
SubstrsUnstable == pc \in {"split", "join"}

\* the worker has evaluated substrs[i] and not yet read the string
HoldsReference(w) == futures[w].st \in {"idx", "dangling"}

\* the memory the worker's reference points at may hold no string any more: the
\* buffer was freed by a later assignment to substrs, or is being replaced or
\* destroyed
ReferenceUnsafe(w) == futures[w].st = "dangling" \/ SubstrsUnstable

\* the texts the worker can get through its reference to substrs[idx]: the chunk
\* when idx is in range and the buffer is alive; when the buffer was freed or is
\* being replaced, the chunk or what the freed memory holds; past the end of a
\* buffer, whatever lies there; an empty vector has no buffer, the read faults
ChunkRead(w) ==
    LET k == futures[w].idx
    IN  IF k < Len(substrs)
        THEN IF ReferenceUnsafe(w) THEN {substrs[k + 1], Garbage} ELSE {substrs[k + 1]}
        ELSE IF Len(substrs) = 0 THEN {} ELSE {Garbage}

\* the read through the reference may kill the process
ChunkReadFaults(w) == ReferenceUnsafe(w) \/ ~(futures[w].idx < Len(substrs))

\* what the future can hold after cipher->applyCipher(chunk, mode): the cipher
\* text of a chunk; of memory that holds no chunk, some text or the exception
\* its copy threw
ApplyResults(chunk) ==
    IF chunk = Garbage THEN {Garbage, Threw}
    ELSE {applyCipher(cipher, chunk, cipherMode)}

\* the worker reads the string, applies the cipher, and its future becomes ready;
\* the call is over and its reference is gone
WorkerApply(w) ==
    /\ Running
    /\ HoldsReference(w)
    /\ \E chunk \in ChunkRead(w) : \E r \in ApplyResults(chunk) :
           futures' = [futures EXCEPT ![w] =
               [st |-> "ready", idx |-> 0, res |-> r]]
    /\ UNCHANGED <<inputText, cipherKey, cipherType, cipherMode, cipher, pc, launch_i, substrs, wait_i,
                   status, comb_i, outputText, written, processing, stderr, exitCode>>
    /\ UNCHANGED splitVars

\* the worker's read through the reference faults: the process is killed
WorkerFault(w) ==
    /\ Running
    /\ HoldsReference(w)
    /\ ChunkReadFaults(w)
    /\ pc' = "crashed"
    /\ futures' = NoThreads
    /\ UNCHANGED <<inputText, cipherKey, cipherType, cipherMode, cipher, launch_i, substrs,
                   wait_i, status, comb_i, outputText, written, processing, stderr, exitCode>>
    /\ UNCHANGED splitVars

(***************************************************************************)
(* main(): the polling loop                                                *)
(***************************************************************************)
\* futures[i].wait_for(std::chrono::seconds(1))
wait_for(w) == IF futures[w].st = "ready" THEN "ready" ELSE "timeout"

\* a wait that gives up on the worker when it times out
FuturesAfterWait_Cancel(w) ==
    IF futures[w].st = "ready" THEN futures
    ELSE [futures EXCEPT ![w] = [st |-> "ready", idx |-> 0, res |-> Garbage]]

\* the futures after futures[i].wait_for(...): the wait observes the shared
\* state of the future and leaves it as it is
FuturesAfterWait(w) == futures

\* one iteration of the inner for loop: poll futures[i], print on a timeout
WaitPoll ==
    /\ pc = "wait_poll"
    /\ wait_i < nThreads
    /\ status' = wait_for(wait_i)
    /\ futures' = FuturesAfterWait(wait_i)
    /\ processing' = (processing \/ status' = "timeout")
    /\ wait_i' = wait_i + 1
    /\ pc' = IF wait_i' < nThreads THEN "wait_poll" ELSE "wait_test"
    /\ UNCHANGED <<inputText, cipherKey, cipherType, cipherMode, cipher, launch_i, substrs,
                   comb_i, outputText, written, stderr, exitCode>>
    /\ UNCHANGED splitVars

\* a loop condition with the comparison inverted
PollAgain_Inverted == status = "ready"

\* the condition that keeps the do/while loop going
PollAgain == status # "ready"

\* while (status != std::future_status::ready)
WaitTest ==
    /\ pc = "wait_test"
    /\ IF PollAgain
       THEN /\ pc' = "wait_poll"
            /\ wait_i' = 0
            /\ UNCHANGED <<comb_i, outputText>>
       ELSE /\ pc' = "combine"
            /\ comb_i' = 0
            /\ outputText' = << >>
            /\ UNCHANGED wait_i
    /\ UNCHANGED <<inputText, cipherKey, cipherType, cipherMode, cipher, launch_i, substrs, futures,
                   status, written, processing, stderr, exitCode>>
    /\ UNCHANGED splitVars

(***************************************************************************)
(* main(): recombination and output                                        *)
(***************************************************************************)
\* a recombination that appends what the worker of index k returned
CombinePart_FromFuture(k) == futures[k].res

\* the string the recombination loop appends at index k
CombinePart(k) == substrs[k + 1]

\* outputText += substrs[i], one iteration; read past the end of substrs (an
\* empty vector has no buffer) the read faults and the process is killed
Combine ==
    /\ pc = "combine"
    /\ comb_i < nThreads
    /\ IF comb_i < Len(substrs)
       THEN /\ outputText' = outputText \o CombinePart(comb_i)
            /\ comb_i' = comb_i + 1
            /\ pc' = IF comb_i' < nThreads THEN "combine" ELSE "write"
            /\ UNCHANGED futures
       ELSE /\ pc' = "crashed"
            /\ futures' = NoThreads
            /\ UNCHANGED <<outputText, comb_i>>
    /\ UNCHANGED <<inputText, cipherKey, cipherType, cipherMode, cipher, launch_i, substrs,
                   wait_i, status, written, processing, stderr, exitCode>>
    /\ UNCHANGED splitVars

\* the text goes to the output file or to stdout, or the file cannot be opened;
\* main returns and its locals are destroyed
WriteOutput ==
    /\ pc = "write"
    /\ \E fileOk \in BOOLEAN :
           IF fileOk
           THEN /\ written' = outputText
                /\ exitCode' = 0
                /\ UNCHANGED stderr
           ELSE /\ stderr' = "[error] failed to create ostream"
                /\ exitCode' = 1
                /\ UNCHANGED written
    /\ pc' = "join"
    /\ UNCHANGED <<inputText, cipherKey, cipherType, cipherMode, cipher, launch_i, substrs, futures,
                   wait_i, status, comb_i, outputText, processing>>
    /\ UNCHANGED splitVars

\* the destructor of each future of std::async blocks until its worker is done
JoinWorkers ==
    /\ pc = "join"
    /\ \A w \in Workers : futures[w].st = "ready"
    /\ pc' = "exit"
    /\ UNCHANGED <<inputText, cipherKey, cipherType, cipherMode, cipher, launch_i, substrs, futures,
                   wait_i, status, comb_i, outputText, written, processing, stderr, exitCode>>
    /\ UNCHANGED splitVars

Next ==
    \/ ConstructCipher
    \/ LaunchTest
    \/ SplitInput
    \/ LaunchWorker
    \/ LaunchIncr
    \/ \E w \in Workers : WorkerReadIndex(w)
    \/ \E w \in Workers : WorkerApply(w)
    \/ \E w \in Workers : WorkerFault(w)
    \/ WaitPoll
    \/ WaitTest
    \/ Combine
    \/ WriteOutput
    \/ JoinWorkers

Spec == Init /\ [][Next]_vars

(***************************************************************************)
(* The pipeline under fair scheduling of the main thread                   *)
(***************************************************************************)
\* the steps of the main thread
MainNext ==
    \/ ConstructCipher
    \/ LaunchTest
    \/ SplitInput
    \/ LaunchWorker
    \/ LaunchIncr
    \/ WaitPoll
    \/ WaitTest
    \/ Combine
    \/ WriteOutput
    \/ JoinWorkers

\* the runs that get as far as the polling loop: a text of at least nThreads
\* characters and a valid key
FairInit ==
    /\ SplitIdle
    /\ \E l \in nThreads..MaxFairLen :
           MainStart(SubSeq(BaseText, 1, l), <<"3">>, "Encrypt")
    /\ cipherType = "Caesar"

\* the main thread is never suspended for ever while it can take a step
FairSpec == FairInit /\ [][Next]_vars /\ WF_vars(MainNext)


(***************************************************************************)
(* Properties of splitString, under SplitSpec                             *)
(***************************************************************************)
\* C1: for every text and every N >= 1, the chunks splitString returns,
\* concatenated in index order, are exactly the text (nothing dropped, nothing
\* duplicated).
C1_ConcatIsText ==
    split_pc = "returned" => Concat(substrings) = str

\* C4: for every text and every N >= 1, splitString returns exactly N chunks.
C4_ExactlyNChunks ==
    split_pc = "returned" => Len(substrings) = n

\* the sizes of the chunks returned
ChunkSizes == [j \in 1..Len(substrings) |-> Len(substrings[j])]

\* C5: every chunk except the last has length floor(len/N), the last has length
\* floor(len/N) + (len mod N); a text of 10 characters with N = 4 gives chunks
\* of sizes 2, 2, 2, 4.
C5_ChunkSizes ==
    split_pc = "returned" =>
        /\ \A j \in 1..Len(substrings) :
               ChunkSizes[j] = IF j < Len(substrings)
                               THEN Len(str) \div n
                               ELSE (Len(str) \div n) + (Len(str) % n)
        /\ (Len(str) = 10 /\ n = 4) => ChunkSizes = <<2, 2, 2, 4>>

\* C6: splitString terminates and returns a result for every text of length
\* >= 0 and every N >= 1, texts shorter than N included: a call that has not
\* returned can always take a step, and never ends in any other way.
C6_AlwaysReturns ==
    split_pc = "returned" \/ (split_pc = "loop" /\ ENABLED (SplitLoopBody \/ SplitReturn))

(***************************************************************************)
(* Properties of the pipeline of main(), under Spec                       *)
(***************************************************************************)
\* what the workers returned, in index order 0..N-1
WorkerResults == [k \in 1..nThreads |-> futures[k - 1].res]

\* C2: the text the pipeline writes is the concatenation, in chunk-index order
\* 0..N-1, of what the workers' applyCipher calls returned.
C2_OutputIsResults ==
    (/\ written # NotWritten
     /\ \A w \in Workers :
            /\ futures[w].st = "ready"
            /\ w < Len(substrs)
            /\ futures[w].res = applyCipher(cipher, substrs[w + 1], cipherMode))
        => written = Concat(WorkerResults)

\* C3: when the polling loop has exited and recombination runs, every one of
\* the N futures is ready.
C3_AllReadyAfterWait ==
    pc \in {"combine", "write"} => \A w \in Workers : futures[w].st = "ready"

\* C7: no worker is about to read the chunk index or the chunk list while the
\* main thread is about to write it (increment i, reassign or destroy substrs),
\* the reference to i is never used after i is gone, and a worker uses no index
\* but its own.
C7_NoSharedMutableData ==
    \A w \in Workers :
        /\ ~(futures[w].st = "start" /\ pc = "incr")
        /\ ~(futures[w].st = "start" /\ pc \notin LaunchPcs)
        /\ ~(HoldsReference(w) /\ ReferenceUnsafe(w))
        /\ HoldsReference(w) => futures[w].idx = w

\* the output the recombination by index gives for an input text
OutputOf(text) == Concat(SubSeq(splitString(text, nThreads).substrings, 1, nThreads))

\* C8: for a fixed input, cipher, key and mode the text written is the same in
\* every execution, whatever the order in which the workers complete: it is a
\* function of the input alone.
C8_OutputDeterministic ==
    written # NotWritten => written = OutputOf(inputText)

\* C8, witness: the output is written in a run where the worker of the last
\* chunk completed and the worker of the first chunk has not
C8_Witness ==
    /\ written # NotWritten
    /\ futures[nThreads - 1].st = "ready"
    /\ futures[0].st # "ready"

\* C9: when the factory raises InvalidKey, main reports the error and exits
\* with code 1; no worker is launched and no output text is written.
C9_InvalidKeyStops ==
    (cipherFactory(cipherType, cipherKey).invalidKey /\ pc # "construct") =>
        /\ pc = "exit"
        /\ exitCode = 1
        /\ stderr = "[error] Invalid key"
        /\ \A w \in Workers : futures[w].st = "none"
        /\ written = NotWritten
        /\ outputText = << >>

\* C9, witness: main has returned after the factory raised InvalidKey
C9_Witness ==
    /\ cipherFactory(cipherType, cipherKey).invalidKey
    /\ pc = "exit"
    /\ exitCode = 1

\* C10: with the Caesar cipher (any valid key, either mode) the text the
\* pipeline writes equals the cipher applied once to the whole input text.
C10_PipelineEqualsWhole ==
    written # NotWritten => written = applyCipher(cipher, inputText, cipherMode)

(***************************************************************************)
(* Properties of splitString called with n = 0, under SplitZeroSpec        *)
(***************************************************************************)
\* C11: a worker count of 0 is rejected with an error before any partitioning
\* or worker launch: splitString(text, 0) computes no partition (it pushes no
\* chunk and returns none) and is not ended in any other way than by the
\* rejection, and the pipeline runs with N # 0.
C11_ZeroRejected ==
    /\ nThreads # 0
    /\ n = 0 => /\ substrings = << >>
                /\ split_pc \in {"loop", "rejected"}

(***************************************************************************)
(* Further properties of the pipeline of main(), under Spec                *)
(***************************************************************************)
\* C13: there is exactly one worker per chunk index: the worker launched in
\* iteration i of the launching loop applies the cipher to chunk i and to no
\* other chunk, in every interleaving.
C13_OneWorkerPerChunk ==
    \A w \in Workers :
        HoldsReference(w) => futures[w].idx = w

\* C14: every index used to read the chunk list is in bounds: each substrs[i]
\* a worker is about to read, and each substrs[i] the recombination loop is
\* about to read, has i < substrs.size().
C14_IndexInBounds ==
    /\ \A w \in Workers :
           (Running /\ HoldsReference(w)) => futures[w].idx < Len(substrs)
    /\ (pc = "combine" /\ comb_i < nThreads) => comb_i < Len(substrs)

(***************************************************************************)
(* Properties of the polling loop                                          *)
(***************************************************************************)
AllReady == \A w \in Workers : futures[w].st = "ready"

\* main is past the polling loop
PollingLeft == pc \in {"combine", "write", "join", "exit"}

\* C15: the polling wait terminates: once every worker has completed, the
\* do/while loop that polls the futures exits and main goes on to the
\* recombination; it cannot poll for ever with all futures ready.
C15_PollingTerminates == AllReady ~> PollingLeft

\* C15, witness: main has left the loop after at least one timeout, all
\* workers done
C15_Witness ==
    /\ AllReady
    /\ processing
    /\ pc = "combine"

\* a step of the polling loop: one wait_for with its print, or the loop test
PollStep ==
    /\ pc \in {"wait_poll", "wait_test"}
    /\ pc' \in {"wait_poll", "wait_test", "combine"}
    /\ (wait_i' # wait_i \/ pc' # pc)

\* the worker of index w has work left and can go on with it
CanRun(w) == Running /\ futures[w].st \in {"start", "idx", "dangling"}

\* what is left of the work of the worker of index w and what it can end in:
\* the indexes it can still read, the texts it can get through its reference
\* and whether that read can kill the process, or the result it has returned
WorkOf(w) ==
    IF futures[w].st = "start"
        THEN [indexes |-> IndexesToRead, chunks |-> {}, faults |-> FALSE, res |-> << >>]
    ELSE IF HoldsReference(w)
        THEN [indexes |-> {futures[w].idx}, chunks |-> ChunkRead(w),
              faults |-> ChunkReadFaults(w), res |-> << >>]
    ELSE [indexes |-> {}, chunks |-> {}, faults |-> FALSE, res |-> futures[w].res]

\* C16: polling is observation only: an iteration of the wait loop, one where
\* wait_for times out and "processing" is printed included, leaves the chunk
\* list, the futures and every worker's work and eventual result unchanged
\* (the index a worker that has not started yet will read, the text a worker
\* will read through its reference, the result a worker has returned); no
\* worker is cancelled or terminated by a timeout.
C16_PollingObservesOnly ==
    [][PollStep =>
          /\ substrs' = substrs
          /\ futures' = futures
          /\ inputText' = inputText
          /\ cipher' = cipher
          /\ cipherMode' = cipherMode
          /\ \A w \in Workers : WorkOf(w)' = WorkOf(w)
          /\ \A w \in Workers : CanRun(w) => CanRun(w)']_vars

\* C16, witness: a wait_for has just timed out on a worker that is still at
\* work and "processing" was printed, while a worker has not read i yet and
\* another holds its reference into substrs
C16_Witness ==
    /\ pc \in {"wait_poll", "wait_test"}
    /\ status = "timeout"
    /\ processing
    /\ wait_i > 0
    /\ CanRun(wait_i - 1)
    /\ \E w \in Workers : futures[w].st = "start"
    /\ \E w \in Workers : HoldsReference(w)

====
